---- MODULE Spec2Model ----
(***************************************************************************)
(* Energy Grid Simulator: the editor of src/UI.py (class GridApp) with its *)
(* Tk canvas, and the metrics of class GridSimulator.                      *)
(*                                                                         *)
(* The Tk canvas is modelled as far as the editor reads it back: every     *)
(* canvas item has an integer id handed out in creation order and never    *)
(* reused, a type (line, image, rectangle, text), its tags, and for node   *)
(* pictures the pixel position of the NW corner.  The coordinates of lines *)
(* are not kept: the editor only asks whether an item has coordinates at   *)
(* all, which is so exactly while the item exists.  The window keeps its   *)
(* size, so the grid is drawn once.  Energies are whole numbers of         *)
(* thousandths and the metrics exact fractions <<numerator, denominator>>. *)
(*                                                                         *)
(* Spec is the editor under every pointer and button event; SpecAnalysis   *)
(* builds topologies with the same handlers and runs Simulate on them;     *)
(* SpecReports builds them and runs Simulate, Security Check and Export;   *)
(* SpecGuard adds and deletes nodes and runs the three on what is left;    *)
(* SpecLegacy is the score of the legacy simulator, grid_simulation.py.    *)
(***************************************************************************)
EXTENDS Integers, Sequences, FiniteSets, TLC

(* Bounds of the model *)
MaxId == 7            \* canvas item ids handed out in one run
MaxNodes == 2         \* length of grid_topology['nodes']
MaxConns == 1         \* length of grid_topology['connections']
NumGridLines == 1     \* grid lines draw_grid creates

(* Program constants *)
GRID_SIZE == 50

\* energies are counted in thousandths, the size of the 0.001 of load_balance
Unit == 1000

\* (as Consumers, with Substation)
ConsumersAndSubstation == {"City", "Building", "Substation"}

\* the producer and consumer lists of GridSimulator.simulate_performance
Producers == {"Generator", "Coal Plant", "Natural Gas", "Nuclear Plant", "Petroleum", "Hydro"}
Consumers == {"City", "Building"}

\* values of the node type box and of the energy dialog
NodeTypes == {"Generator", "City"}
Energies == {-100 * Unit}
AllNodeTypes == {"Generator", "City", "Substation"}
AllEnergies == {-40 * Unit, 40 * Unit, 100 * Unit, -1}

\* pointer positions: each lies on the picture of a node standing in its cell;
\* 125 is half-way between two grid columns
Points == {<<20, 60>>, <<125, 10>>}

None == 0

VARIABLES
    canvas,                  \* item id -> canvas item (the items that exist)
    next_id,                 \* the id Tk gives the next created item
    nodes,                   \* grid_topology['nodes']
    connections,             \* grid_topology['connections']
    node_coords,             \* item id -> recorded position
    drag_data,               \* [x, y, item]
    connection_mode,
    delete_mode,
    delete_connection_mode,
    connection_start,
    images,                  \* whether the node pictures of img/ load
    log_file,                \* the lines of grid_simulation_log.txt
    grid_topology,           \* the argument of the legacy GridSimulator (grid_simulation.py)
    vulnerability_score,     \* its last score, in tenths; None before the first assessment
    last                     \* what the last handler did, where a claim speaks of it

vars == <<canvas, next_id, nodes, connections, node_coords, drag_data,
          connection_mode, delete_mode, delete_connection_mode,
          connection_start, images, log_file, grid_topology, vulnerability_score, last>>

----------------------------------------------------------------------------
(* Helpers *)

Max(a, b) == IF a >= b THEN a ELSE b
Abs(a) == IF a < 0 THEN -a ELSE a

Range(s) == {s[k] : k \in 1..Len(s)}

RECURSIVE Filter(_, _)
\* [e for e in s if e \in keep], as the list comprehensions build it
Filter(s, keep) ==
    IF s = <<>> THEN <<>>
    ELSE IF Head(s) \in keep THEN <<Head(s)>> \o Filter(Tail(s), keep)
         ELSE Filter(Tail(s), keep)

\* (as Snap, without the rounding)
Snap_exact(v) == v

\* Python's round(v / GRID_SIZE) * GRID_SIZE: halves go to the even multiple
Snap(v) ==
    LET q == v \div GRID_SIZE
        r == v % GRID_SIZE
    IN  IF 2 * r < GRID_SIZE THEN q * GRID_SIZE
        ELSE IF 2 * r > GRID_SIZE THEN (q + 1) * GRID_SIZE
        ELSE IF q % 2 = 0 THEN q * GRID_SIZE ELSE (q + 1) * GRID_SIZE

\* f"{energy:.1f}": the sign and the tenths nearest to the energy (no energy
\* of the model lies half-way between two tenths)
format_1f(energy) == [negative |-> energy < 0, tenths |-> (Abs(energy) + 50) \div 100]

\* canvas items: a grid line, the line drawn for a pair of items, a node
\* picture, the energy label tagged energy_<owner>
GridLine == [kind |-> "line", tag |-> "grid"]
ConnectionLine(start_item, end_item) ==
    [kind |-> "line", tag |-> "connection", ends |-> <<start_item, end_item>>]
Picture(kind, x, y) == [kind |-> kind, tag |-> "node", x |-> x, y |-> y]
Label(owner, energy) ==
    [kind |-> "text", tag |-> "energy", owner |-> owner, text |-> format_1f(energy)]

Items == DOMAIN canvas

\* canvas.delete of a set of ids
Delete(c, ids) == [i \in (DOMAIN c) \ ids |-> c[i]]

\* canvas.create_*: the new items get the next ids
Create(c, new) == [i \in (DOMAIN c) \cup (DOMAIN new) |-> IF i \in DOMAIN new THEN new[i] ELSE c[i]]

\* the items carrying tag energy_<item>
EnergyLabels(c, item) == {t \in DOMAIN c : c[t].kind = "text" /\ c[t].owner = item}

\* item j lies over item i and hides all of it: two node pictures (they have
\* one size) at the same place, j created later, or the equal labels of two
\* such pictures
Covers(j, i) ==
    /\ j > i
    /\ \/ /\ canvas[i].tag = "node" /\ canvas[j].tag = "node"
          /\ canvas[i].x = canvas[j].x /\ canvas[i].y = canvas[j].y
       \/ /\ canvas[i].kind = "text" /\ canvas[j].kind = "text"
          /\ canvas[i].text = canvas[j].text
          /\ canvas[i].owner \in Items /\ canvas[j].owner \in Items
          /\ canvas[canvas[i].owner].x = canvas[canvas[j].owner].x
          /\ canvas[canvas[i].owner].y = canvas[canvas[j].owner].y

\* what canvas.find_closest can return: an item some pointer position is closest to
Closest == {i \in Items : ~\E j \in Items : Covers(j, i)}

----------------------------------------------------------------------------
(* Node: the record of one Node object *)

Node(item, node_type, energy) ==
    [item |-> item, node_type |-> node_type, energy |-> energy]

\* Node.draw: the picture gets id n, the energy label n + 1
draw(n, x, y, energy) ==
    (n :> Picture(IF images THEN "image" ELSE "rectangle", x, y)) @@ (n + 1 :> Label(n, energy))

\* index of the first node whose item is the given one, 0 when there is none
Find(ns, item) ==
    IF \E k \in 1..Len(ns) : ns[k].item = item
    THEN CHOOSE k \in 1..Len(ns) : ns[k].item = item /\ \A m \in 1..(k - 1) : ns[m].item # item
    ELSE 0

NodeItems == {nodes[k].item : k \in 1..Len(nodes)}

\* the note a handler leaves in last: its name, the item it was given, the
\* lengths of the two lists before it
Did(op, item) == [op |-> op, item |-> item, nodes |-> Len(nodes), edges |-> Len(connections)]
Quiet == [op |-> ""]

----------------------------------------------------------------------------
InitApp ==
    /\ canvas = [i \in 1..NumGridLines |-> GridLine]
    /\ next_id = NumGridLines + 1
    /\ nodes = <<>>
    /\ connections = <<>>
    /\ node_coords = [i \in {} |-> <<0, 0>>]
    /\ drag_data = [x |-> 0, y |-> 0, item |-> None]
    /\ connection_mode = FALSE
    /\ delete_mode = FALSE
    /\ delete_connection_mode = FALSE
    /\ connection_start = None
    /\ images \in BOOLEAN
    /\ log_file = <<>>
    /\ last = Quiet

\* the application alone: the legacy simulator is handed nothing
Init ==
    /\ InitApp
    /\ grid_topology = [nodes |-> <<>>, connections |-> <<>>]
    /\ vulnerability_score = None

----------------------------------------------------------------------------
(* Mode buttons *)

toggle_add_mode ==
    /\ drag_data.item = None
    /\ connection_mode' = FALSE
    /\ delete_mode' = FALSE
    /\ delete_connection_mode' = FALSE
    /\ last' = Quiet
    /\ UNCHANGED <<canvas, next_id, nodes, connections, node_coords, drag_data,
                   connection_start, images, log_file,
                   grid_topology, vulnerability_score>>

\* (as toggle_connection_mode, keeping connection_start)
toggle_connection_mode_keeping_start ==
    /\ drag_data.item = None
    /\ connection_mode' = ~connection_mode
    /\ delete_mode' = FALSE
    /\ delete_connection_mode' = FALSE
    /\ last' = Quiet
    /\ UNCHANGED <<canvas, next_id, nodes, connections, node_coords, drag_data,
                   connection_start, images, log_file,
                   grid_topology, vulnerability_score>>

toggle_connection_mode ==
    /\ drag_data.item = None
    /\ connection_mode' = ~connection_mode
    /\ delete_mode' = FALSE
    /\ delete_connection_mode' = FALSE
    /\ connection_start' = None
    /\ last' = Quiet
    /\ UNCHANGED <<canvas, next_id, nodes, connections, node_coords, drag_data, images, log_file,
                   grid_topology, vulnerability_score>>

\* (as toggle_delete_mode, without switching connection mode off)
toggle_delete_mode_only ==
    /\ drag_data.item = None
    /\ delete_mode' = ~delete_mode
    /\ delete_connection_mode' = FALSE
    /\ last' = Quiet
    /\ UNCHANGED <<canvas, next_id, nodes, connections, node_coords, drag_data,
                   connection_mode, connection_start, images, log_file,
                   grid_topology, vulnerability_score>>

toggle_delete_mode ==
    /\ drag_data.item = None
    /\ delete_mode' = ~delete_mode
    /\ connection_mode' = FALSE
    /\ delete_connection_mode' = FALSE
    /\ last' = Quiet
    /\ UNCHANGED <<canvas, next_id, nodes, connections, node_coords, drag_data,
                   connection_start, images, log_file,
                   grid_topology, vulnerability_score>>

toggle_delete_connection_mode ==
    /\ drag_data.item = None
    /\ delete_connection_mode' = ~delete_connection_mode
    /\ connection_mode' = FALSE
    /\ delete_mode' = FALSE
    /\ last' = Quiet
    /\ UNCHANGED <<canvas, next_id, nodes, connections, node_coords, drag_data,
                   connection_start, images, log_file,
                   grid_topology, vulnerability_score>>

----------------------------------------------------------------------------
(* Connections *)

\* (as accepts_connection, without the comparison of the two ids)
accepts_connection_any_pair(start_item, end_item) ==
    /\ start_item \in Items
    /\ end_item \in Items

\* the two tests of add_connection: different ids, and both items have
\* coordinates on the canvas
accepts_connection(start_item, end_item) ==
    /\ start_item # end_item
    /\ start_item \in Items
    /\ end_item \in Items

add_connection(start_item, end_item) ==
    IF accepts_connection(start_item, end_item)
    THEN /\ next_id <= MaxId
         /\ Len(connections) < MaxConns
         /\ canvas' = Create(canvas, next_id :> ConnectionLine(start_item, end_item))
         /\ next_id' = next_id + 1
         /\ connections' = Append(connections, <<start_item, end_item>>)
    ELSE UNCHANGED <<canvas, next_id, connections>>

\* (as without_item, but only the first end of a pair is compared)
without_item_as_start(conns, item) ==
    Filter(conns, {c \in Range(conns) : c[1] # item})

\* the list remove_connections leaves: the pairs that do not name the item
without_item(conns, item) ==
    Filter(conns, {c \in Range(conns) : c[1] # item /\ c[2] # item})

\* the list remove_connection leaves: the pairs whose two ends are still on
\* the canvas c
with_both_ends(conns, c) ==
    Filter(conns, {e \in Range(conns) : e[1] \in DOMAIN c /\ e[2] \in DOMAIN c})

handle_connection_click(item) ==
    /\ connection_mode
    /\ drag_data.item = None
    /\ IF connection_start = None
       THEN /\ connection_start' = item
            /\ UNCHANGED <<canvas, next_id, connections>>
       ELSE /\ add_connection(connection_start, item)
            /\ connection_start' = None
    /\ last' = IF connection_start = item THEN Did("self_loop", item) ELSE Quiet
    /\ UNCHANGED <<nodes, node_coords, drag_data, connection_mode, delete_mode,
                   delete_connection_mode, images, log_file,
                   grid_topology, vulnerability_score>>

\* remove_connection deletes the clicked line and keeps the pairs whose two
\* ends are still canvas items
handle_delete_connection_click(item) ==
    /\ ~connection_mode /\ ~delete_mode /\ delete_connection_mode
    /\ drag_data.item = None
    /\ IF canvas[item].tag = "connection"
       THEN /\ canvas' = Delete(canvas, {item})
            /\ connections' = with_both_ends(connections, Delete(canvas, {item}))
            /\ last' = Did("remove_connection", item)
       ELSE /\ UNCHANGED <<canvas, connections>>
            /\ last' = Quiet
    /\ UNCHANGED <<next_id, nodes, node_coords, drag_data, connection_mode, delete_mode,
                   delete_connection_mode, connection_start, images, log_file,
                   grid_topology, vulnerability_score>>

----------------------------------------------------------------------------
(* Nodes *)

\* remove_node: the picture and its label leave the canvas, the node its list,
\* the position its table, and remove_connections drops the pairs naming the
\* item.  (remove_connections looks for lines overlapping the item after the
\* item was deleted, finds none, and deletes no line.)
remove_node(item) ==
    /\ canvas' = Delete(canvas, {item} \cup EnergyLabels(canvas, item))
    /\ nodes' = Filter(nodes, {n \in Range(nodes) : n.item # item})
    /\ node_coords' = [k \in (DOMAIN node_coords) \ {item} |-> node_coords[k]]
    /\ connections' = without_item(connections, item)

handle_delete_click(item) ==
    /\ ~connection_mode /\ delete_mode
    /\ drag_data.item = None
    /\ IF canvas[item].tag = "node"
       THEN /\ remove_node(item)
            /\ last' = Did("remove_node", item)
       ELSE /\ UNCHANGED <<canvas, nodes, node_coords, connections>>
            /\ last' = Quiet
    /\ UNCHANGED <<next_id, drag_data, connection_mode, delete_mode,
                   delete_connection_mode, connection_start, images, log_file,
                   grid_topology, vulnerability_score>>

\* add_node: a new Node with energy 0 at the snapped pointer position
add_node(p, node_type) ==
    LET snapped_x == Snap(p[1])
        snapped_y == Snap(p[2])
    IN  /\ next_id + 1 <= MaxId
        /\ Len(nodes) < MaxNodes
        /\ canvas' = Create(canvas, draw(next_id, snapped_x, snapped_y, 0))
        /\ next_id' = next_id + 2
        /\ nodes' = Append(nodes, Node(next_id, node_type, 0))
        /\ node_coords' = (next_id :> <<snapped_x, snapped_y>>) @@ node_coords
        /\ UNCHANGED drag_data

\* the pointer at p has the item as its closest one: a node picture when p is
\* on it, any other item somewhere in every cell
Over(item, p) ==
    canvas[item].tag = "node" => (canvas[item].x = Snap(p[1]) /\ canvas[item].y = Snap(p[2]))

\* handle_node_click: an image starts a drag, anything else adds a node
handle_node_click(item, p, node_type) ==
    /\ ~connection_mode /\ ~delete_mode /\ ~delete_connection_mode
    /\ drag_data.item = None
    /\ Over(item, p)
    /\ IF canvas[item].kind = "image"
       THEN /\ Find(nodes, item) # 0 => next_id + 1 <= MaxId
            /\ drag_data' = [x |-> p[1], y |-> p[2], item |-> item]
            /\ last' = Quiet
            /\ UNCHANGED <<canvas, next_id, nodes, node_coords>>
       ELSE /\ add_node(p, node_type)
            /\ last' = Quiet
    /\ UNCHANGED <<connections, connection_mode, delete_mode, delete_connection_mode,
                   connection_start, images, log_file,
                   grid_topology, vulnerability_score>>

\* on_drag: the dragged picture (and its label) follow the pointer
on_drag(p) ==
    /\ drag_data.item # None
    /\ LET dx == p[1] - drag_data.x
           dy == p[2] - drag_data.y
           it == drag_data.item
       IN  /\ canvas' = [canvas EXCEPT ![it].x = @ + dx, ![it].y = @ + dy]
           /\ drag_data' = [drag_data EXCEPT !.x = p[1], !.y = p[2]]
    /\ last' = Quiet
    /\ UNCHANGED <<next_id, nodes, connections, node_coords, connection_mode, delete_mode,
                   delete_connection_mode, connection_start, images, log_file,
                   grid_topology, vulnerability_score>>

\* (as moved_node, with the energy left at the constructor's default)
moved_node_default_energy(node, item) == Node(item, node.node_type, 0)

\* the Node update_node_position puts in place of the moved one
moved_node(node, item) == Node(item, node.node_type, node.energy)

\* update_node_position, on the canvas c where the picture already stands at
\* (x, y): the first node whose item is the moved one is replaced by a new
\* Node, drawn anew.  (update_connections then only moves line ends.)
update_node_position(c, item, x, y) ==
    LET i == Find(nodes, item)
    IN  IF i # 0
        THEN /\ canvas' = Create(c, draw(next_id, x, y, nodes[i].energy))
             /\ next_id' = next_id + 2
             /\ nodes' = [nodes EXCEPT ![i] = moved_node(nodes[i], next_id)]
             /\ node_coords' = (item :> <<x, y>>) @@ node_coords
        ELSE /\ canvas' = c
             /\ UNCHANGED <<next_id, nodes, node_coords>>

\* on_release: the dragged picture snaps to the grid and the topology follows
\* (the button goes up where the pointer last was)
on_release(p) ==
    /\ drag_data.item # None
    /\ p = <<drag_data.x, drag_data.y>>
    /\ LET snapped_x == Snap(p[1])
           snapped_y == Snap(p[2])
           it == drag_data.item
       IN  update_node_position([canvas EXCEPT ![it].x = snapped_x, ![it].y = snapped_y],
                                it, snapped_x, snapped_y)
    /\ drag_data' = [drag_data EXCEPT !.item = None]
    /\ last' = Did(IF Find(nodes, drag_data.item) # 0 THEN "move" ELSE "release", drag_data.item)
    /\ UNCHANGED <<connections, connection_mode, delete_mode, delete_connection_mode,
                   connection_start, images, log_file,
                   grid_topology, vulnerability_score>>

\* (as set_node_energy, with the value given to every node)
set_node_energy_of_all(item, energy) ==
    /\ drag_data.item = None
    /\ Find(nodes, item) # 0
    /\ nodes' = [k \in DOMAIN nodes |-> [nodes[k] EXCEPT !.energy = energy]]
    /\ canvas' = [t \in Items |-> IF canvas[t].kind = "text"
                                  THEN [canvas[t] EXCEPT !.text = format_1f(energy)]
                                  ELSE canvas[t]]
    /\ last' = Quiet
    /\ UNCHANGED <<next_id, connections, node_coords, drag_data, connection_mode,
                   delete_mode, delete_connection_mode, connection_start, images, log_file,
                   grid_topology, vulnerability_score>>

\* Node.update_energy through set_node_energy: the item under the pointer, if
\* it is a node's, takes the value the dialog returns
set_node_energy(item, energy) ==
    LET i == Find(nodes, item)
    IN  /\ drag_data.item = None
        /\ i # 0
        /\ nodes' = [nodes EXCEPT ![i].energy = energy]
        /\ canvas' = [t \in Items |-> IF t \in EnergyLabels(canvas, item)
                                      THEN [canvas[t] EXCEPT !.text = format_1f(energy)]
                                      ELSE canvas[t]]
        /\ last' = Quiet
        /\ UNCHANGED <<next_id, connections, node_coords, drag_data, connection_mode,
                       delete_mode, delete_connection_mode, connection_start, images, log_file,
                   grid_topology, vulnerability_score>>

----------------------------------------------------------------------------
(* GridSimulator: the metrics, as exact fractions <<numerator, denominator>>; *)
(* the energies, the output and the demand are in thousandths               *)

RECURSIVE GCD(_, _)
GCD(a, b) == IF b = 0 THEN a ELSE GCD(b, a % b)

\* n / d for d # 0, in lowest terms with a positive denominator
Frac(n, d) ==
    LET g == GCD(Abs(n), Abs(d))
    IN  IF d < 0 THEN <<(-n) \div g, (-d) \div g>> ELSE <<n \div g, d \div g>>
FracAdd(a, b) == Frac(a[1] * b[2] + b[1] * a[2], a[2] * b[2])
FracLeq(a, b) == a[1] * b[2] <= b[1] * a[2]
FracEq(a, b) == Frac(a[1], a[2]) = Frac(b[1], b[2])

RECURSIVE SumEnergy(_, _)
\* sum(node.energy for node in ns if node.node_type in types)
SumEnergy(ns, types) ==
    IF ns = <<>> THEN 0
    ELSE (IF Head(ns).node_type \in types THEN Head(ns).energy ELSE 0) + SumEnergy(Tail(ns), types)

\* (as connection_efficiency, without the "1 -")
connection_efficiency_loss(ns, conn) ==
    LET s == Find(ns, conn[1])
        e == Find(ns, conn[2])
    IN  IF s # 0 /\ e # 0
        THEN Frac(Abs(ns[s].energy - ns[e].energy),
                  Max(Max(Abs(ns[s].energy), Abs(ns[e].energy)), Unit))
        ELSE <<0, 1>>

\* one pass of the loop of calculate_path_efficiency: what the connection
\* adds to total_efficiency
connection_efficiency(ns, conn) ==
    LET s == Find(ns, conn[1])
        e == Find(ns, conn[2])
    IN  IF s # 0 /\ e # 0
        THEN LET energy_diff == Abs(ns[s].energy - ns[e].energy)
                 m == Max(Max(Abs(ns[s].energy), Abs(ns[e].energy)), Unit)
             IN  Frac(m - energy_diff, m)
        ELSE <<0, 1>>

RECURSIVE total_efficiency(_, _)
total_efficiency(ns, conns) ==
    IF conns = <<>> THEN <<0, 1>>
    ELSE FracAdd(connection_efficiency(ns, Head(conns)), total_efficiency(ns, Tail(conns)))

\* (as calculate_path_efficiency, dividing by the number of connections whose
\* two ends are nodes, and with the base value when there is none)
calculate_path_efficiency_found_only(ns, conns) ==
    LET found == {k \in 1..Len(conns) : Find(ns, conns[k][1]) # 0 /\ Find(ns, conns[k][2]) # 0}
    IN  IF found = {} THEN <<1, 2>>
        ELSE LET total == total_efficiency(ns, conns)
             IN  Frac(total[1], total[2] * Cardinality(found))

\* (as calculate_path_efficiency, with 1 for an empty connection list)
calculate_path_efficiency_base_one(ns, conns) ==
    IF conns = <<>> THEN <<1, 1>>
    ELSE LET total == total_efficiency(ns, conns)
         IN  Frac(total[1], total[2] * Len(conns))

calculate_path_efficiency(ns, conns) ==
    IF conns = <<>> THEN <<1, 2>>
    ELSE LET total == total_efficiency(ns, conns)
         IN  Frac(total[1], total[2] * Len(conns))

\* (as load_balance, without the min)
load_balance_uncapped(total_energy, total_demand) ==
    Frac(total_energy, total_demand + 1)

\* min(1.0, total_energy / (total_demand + 0.001)), where the divisor is not 0
load_balance(total_energy, total_demand) ==
    LET ratio == Frac(total_energy, total_demand + 1)
    IN  IF FracLeq(<<1, 1>>, ratio) THEN <<1, 1>> ELSE ratio

\* the exception of a float division by 0.0
ZeroDivisionError == [raised |-> "ZeroDivisionError"]

\* the dictionary simulate_performance returns, or the exception it raises
\* when total_demand + 0.001 is 0.0
simulate_performance(ns, conns) ==
    LET total_energy == SumEnergy(ns, Producers)
        total_demand == SumEnergy(ns, Consumers)
        efficiency == calculate_path_efficiency(ns, conns)
    IN  IF total_demand + 1 = 0 THEN ZeroDivisionError
        ELSE LET balance == load_balance(total_energy, total_demand)
             IN  [total_energy_output |-> Frac(total_energy * efficiency[1], efficiency[2]),
                  total_energy_demand |-> total_demand,
                  average_efficiency |-> Frac(efficiency[1] * 100, efficiency[2]),
                  load_balance |-> Frac(balance[1] * 100, balance[2])]

\* (as Simulate, leaving connection mode)
Simulate_leaving_mode ==
    /\ drag_data.item = None
    /\ nodes # <<>>
    /\ simulate_performance(nodes, connections) # ZeroDivisionError
    /\ last' = [op |-> "simulate", performance |-> simulate_performance(nodes, connections)]
    /\ connection_mode' = FALSE
    /\ UNCHANGED <<canvas, next_id, nodes, connections, node_coords, drag_data,
                   delete_mode, delete_connection_mode, connection_start, images, log_file,
                   grid_topology, vulnerability_score>>

\* the Simulate button: a warning on an empty node list, the metrics
\* otherwise; an exception ends the callback before the output is shown
Simulate ==
    /\ drag_data.item = None
    /\ last' = IF nodes = <<>> THEN [op |-> "warning"]
               ELSE IF simulate_performance(nodes, connections) = ZeroDivisionError
                    THEN [op |-> "exception"]
                    ELSE [op |-> "simulate",
                          performance |-> simulate_performance(nodes, connections)]
    /\ UNCHANGED <<canvas, next_id, nodes, connections, node_coords, drag_data,
                   connection_mode, delete_mode, delete_connection_mode,
                   connection_start, images, log_file,
                   grid_topology, vulnerability_score>>

----------------------------------------------------------------------------
(* GridSimulator: the security assessment and the log *)

\* the suggestions list of perform_security_assessment
suggestions ==
    <<"Implement advanced encryption", "Upgrade firewall systems",
      "Conduct regular security audits">>

\* values of round(random.uniform(1, 10), 2), in hundredths
Scores == {550}

\* (as sample, drawing each element anew from the whole population)
sample_with_replacement(population, k) ==
    {[i \in 1..k |-> population[f[i]]] : f \in [1..k -> 1..Len(population)]}

\* random.sample(population, k): the lists of the elements at k different
\* positions of the population, in any order
sample(population, k) ==
    {[i \in 1..k |-> population[f[i]]] :
        f \in {g \in [1..k -> 1..Len(population)] :
                  \A i, j \in 1..k : i # j => g[i] # g[j]}}

\* the dictionaries perform_security_assessment can return
perform_security_assessment ==
    {[vulnerability_score |-> v, suggestions |-> chosen] :
        v \in Scores, chosen \in sample(suggestions, 2)}

\* the Security Check button
Assess ==
    /\ drag_data.item = None
    /\ IF nodes = <<>> THEN last' = [op |-> "warning"]
       ELSE \E security \in perform_security_assessment :
               last' = [op |-> "assess", security |-> security]
    /\ UNCHANGED <<canvas, next_id, nodes, connections, node_coords, drag_data,
                   connection_mode, delete_mode, delete_connection_mode,
                   connection_start, images, log_file,
                   grid_topology, vulnerability_score>>

\* (as open_w, in mode "a": the content stays)
open_a(f) == f

\* open(log_file, "w") on a file of content f: the content is dropped
open_w(f) == <<>>

\* f.write(text)
write(f, text) == Append(f, text)

\* str(grid_topology): the nodes print as objects without their fields, the
\* connections as pairs of item ids
dump(ns, conns) == [nodes |-> [k \in 1..Len(ns) |-> "Node object"], connections |-> conns]

\* export_log on a file of content f: the three writes, the second of which
\* does not happen when simulate_performance raises
export_log(f, ns, conns, security) ==
    LET opened == open_w(f)
        first == write(opened, <<"Grid Topology:", dump(ns, conns)>>)
    IN  IF simulate_performance(ns, conns) = ZeroDivisionError THEN first
        ELSE write(write(first, <<"Performance:", simulate_performance(ns, conns)>>),
                   <<"Security Assessment:", security>>)

\* (as Export, without the guard on an empty node list)
Export_unguarded ==
    /\ drag_data.item = None
    /\ \E security \in perform_security_assessment :
          /\ log_file' = export_log(log_file, nodes, connections, security)
          /\ last' = IF simulate_performance(nodes, connections) = ZeroDivisionError
                     THEN [op |-> "exception"] ELSE [op |-> "export"]
    /\ UNCHANGED <<canvas, next_id, nodes, connections, node_coords, drag_data,
                   connection_mode, delete_mode, delete_connection_mode,
                   connection_start, images,
                   grid_topology, vulnerability_score>>

\* the Export Log button
Export ==
    /\ drag_data.item = None
    /\ IF nodes = <<>>
       THEN /\ last' = [op |-> "warning"]
            /\ UNCHANGED log_file
       ELSE \E security \in perform_security_assessment :
               /\ log_file' = export_log(log_file, nodes, connections, security)
               /\ last' = IF simulate_performance(nodes, connections) = ZeroDivisionError
                          THEN [op |-> "exception"]
                          ELSE [op |-> "export"]
    /\ UNCHANGED <<canvas, next_id, nodes, connections, node_coords, drag_data,
                   connection_mode, delete_mode, delete_connection_mode,
                   connection_start, images,
                   grid_topology, vulnerability_score>>

----------------------------------------------------------------------------
Next ==
    \/ toggle_add_mode
    \/ toggle_connection_mode
    \/ toggle_delete_mode
    \/ toggle_delete_connection_mode
    \/ \E item \in Closest : handle_connection_click(item)
    \/ \E item \in Closest : handle_delete_click(item)
    \/ \E item \in Closest : handle_delete_connection_click(item)
    \/ \E item \in Closest, p \in Points, t \in NodeTypes :
          handle_node_click(item, p, t)
    \/ \E p \in Points : on_drag(p)
    \/ \E p \in Points : on_release(p)
    \/ \E item \in Closest, energy \in Energies : set_node_energy(item, energy)

Spec == Init /\ [][Next]_vars

\* topologies built by adding nodes, setting energies and connecting, and the
\* metrics of each
NextAnalysis ==
    \/ \E item \in {i \in Closest : canvas[i].tag = "grid"}, p \in Points, t \in AllNodeTypes :
          handle_node_click(item, p, t)
    \/ toggle_connection_mode
    \/ \E item \in {i \in Closest : canvas[i].tag \in {"grid", "node"}} : handle_connection_click(item)
    \/ \E item \in Closest, energy \in AllEnergies : set_node_energy(item, energy)
    \/ Simulate

SpecAnalysis == Init /\ [][NextAnalysis]_vars

\* energies of the topologies whose log is exported
LogEnergies == {-1}

\* the editor started with its node pictures in place
InitReports ==
    /\ Init
    /\ images

\* topologies built by adding nodes, setting energies and connecting nodes,
\* with the three analysis buttons
NextReports ==
    \/ \E item \in {i \in Closest : canvas[i].tag = "grid"}, p \in Points, t \in NodeTypes :
          handle_node_click(item, p, t)
    \/ toggle_connection_mode
    \/ \E item \in {i \in Closest : canvas[i].tag = "node"} : handle_connection_click(item)
    \/ \E item \in Closest, energy \in LogEnergies : set_node_energy(item, energy)
    \/ Simulate
    \/ Assess
    \/ Export

SpecReports == InitReports /\ [][NextReports]_vars

\* The application emptied again: nodes are added and deleted, and the three
\* analyses run on whatever is left, the empty node list included.
NextGuard ==
    \/ \E item \in {i \in Closest : canvas[i].tag = "grid"}, p \in Points, t \in NodeTypes :
          handle_node_click(item, p, t)
    \/ toggle_add_mode
    \/ toggle_delete_mode
    \/ \E item \in Closest : handle_delete_click(item)
    \/ Simulate
    \/ Assess
    \/ Export

SpecGuard == InitReports /\ [][NextGuard]_vars

----------------------------------------------------------------------------
\* The legacy simulator of grid_simulation.py. Its topology holds nodes as
\* tuples (node_type, x, y) and connections as pairs of node indices; scores
\* are in tenths.
MaxLegacyNodes == 8
MaxLegacyConns == 2
LegacyNodeTypes == {"Generator", "Substation", "City"}
LegacyNodes == {<<t, 0, 0>> : t \in LegacyNodeTypes}
LegacyPairs == {<<0, 1>>, <<1, 0>>}

LegacyTopologies ==
    {g \in [nodes : UNION {[1..n -> LegacyNodes] : n \in 0..MaxLegacyNodes},
            connections : UNION {[1..n -> LegacyPairs] : n \in 0..MaxLegacyConns}] :
        g.connections # <<>> => Len(g.nodes) >= 2}

\* (as calculate_vulnerability_score, without the clamp)
calculate_vulnerability_score_unclamped(g) ==
    LET num_nodes == Len(g.nodes)
        num_connections == Len(g.connections)
        critical_nodes == Len(Filter(g.nodes, {node \in Range(g.nodes) :
                                                       node[1] \in {"Generator", "Substation"}}))
    IN  50 + (num_nodes * 1 + num_connections * 2) + critical_nodes * 5

\* calculate_vulnerability_score: 5 + 0.1 per node + 0.2 per connection + 0.5
\* per Generator or Substation, clamped to 0..10
calculate_vulnerability_score(g) ==
    LET num_nodes == Len(g.nodes)
        num_connections == Len(g.connections)
        critical_nodes == Len(Filter(g.nodes, {node \in Range(g.nodes) :
                                                       node[1] \in {"Generator", "Substation"}}))
        score == 50 + (num_nodes * 1 + num_connections * 2) + critical_nodes * 5
    IN  IF Max(score, 0) <= 100 THEN Max(score, 0) ELSE 100

\* perform_security_assessment of the legacy simulator: the score is computed
legacy_perform_security_assessment ==
    /\ vulnerability_score' = calculate_vulnerability_score(grid_topology)
    /\ UNCHANGED <<canvas, next_id, nodes, connections, node_coords, drag_data,
                   connection_mode, delete_mode, delete_connection_mode,
                   connection_start, images, log_file, grid_topology, last>>

InitLegacy ==
    /\ InitApp
    /\ grid_topology \in LegacyTopologies
    /\ vulnerability_score = None

NextLegacy == legacy_perform_security_assessment

SpecLegacy == InitLegacy /\ [][NextLegacy]_vars

----------------------------------------------------------------------------
(* The claims *)

Names(conns, item) == {k \in 1..Len(conns) : conns[k][1] = item \/ conns[k][2] = item}

\* C1: both ends of every connection are the item of a node of the node list
ReferentialIntegrity ==
    \A k \in 1..Len(connections) :
        connections[k][1] \in NodeItems /\ connections[k][2] \in NodeItems

\* C2: a delete-node click on the picture of a node leaves no node with that
\* item and no connection naming it, and keeps every other connection, in order
CascadeDelete ==
    [][\A item \in Closest :
          (item \in NodeItems /\ handle_delete_click(item)) =>
              LET Other(c) == c[1] # item /\ c[2] # item
              IN  /\ \A k \in 1..Len(nodes') : nodes'[k].item # item
                  /\ Names(connections', item) = {}
                  /\ connections' = SelectSeq(connections, Other)]_vars

\* a node that had a connection has just been removed, and the connection with it
CascadeDeleteHappened ==
    /\ last.op = "remove_node"
    /\ Len(nodes) < last.nodes
    /\ Len(connections) < last.edges

\* C3: every node keeps its item over a move (a release that ends a drag)
NodeIdentifierStable ==
    [][\A p \in Points :
          on_release(p) =>
              /\ Len(nodes') = Len(nodes)
              /\ \A k \in 1..Len(nodes) : nodes'[k].item = nodes[k].item]_vars

RemoveEdge ==
    [][\A item \in Closest :
          handle_delete_connection_click(item) =>
              IF canvas[item].tag = "connection"
              THEN canvas[item].ends \in Range(connections) =>
                      (Len(connections') = Len(connections) - 1 /\ nodes' = nodes)
              ELSE connections' = connections /\ nodes' = nodes]_vars

\* C6: no connection joins an item to itself, and a second connection click
\* on the item of the first changes neither the canvas nor the topology
SelfLoopRejected ==
    [][/\ \A k \in 1..Len(connections') : connections'[k][1] # connections'[k][2]
       /\ \A item \in Closest :
             (connection_start = item /\ handle_connection_click(item)) =>
                 UNCHANGED <<canvas, next_id, nodes, connections, node_coords>>]_vars

\* a second connection click has just fallen on the node of the first
SelfLoopTried ==
    /\ last.op = "self_loop"
    /\ last.item \in NodeItems

\* C7: a second connection click appends the pair when both ends are items of
\* distinct nodes, and changes neither list nor the canvas otherwise
AddEdgeRejectsAbsent ==
    [][\A item \in Closest :
          (connection_start # None /\ handle_connection_click(item)) =>
              IF connection_start \in NodeItems /\ item \in NodeItems /\ item # connection_start
              THEN connections' = Append(connections, <<connection_start, item>>) /\ nodes' = nodes
              ELSE UNCHANGED <<canvas, nodes, connections>>]_vars

\* C8: a delete-node click on a picture that is no node's item changes
\* neither the node list nor the connection list
NotFoundHarmless ==
    [][\A item \in Closest :
          (item \notin NodeItems /\ handle_delete_click(item)) =>
              UNCHANGED <<nodes, connections>>]_vars

\* C9: at most one of the three mode flags is set
ModeExclusive ==
    /\ ~(connection_mode /\ delete_mode)
    /\ ~(connection_mode /\ delete_connection_mode)
    /\ ~(delete_mode /\ delete_connection_mode)

\* delete mode was entered from connection mode, after a first connection click
ModeSwitched ==
    /\ delete_mode
    /\ connection_start # None

\* C10: the efficiency Simulate reports lies between 0 and 100 percent
PathEfficiencyInRange ==
    last.op = "simulate" =>
        /\ FracLeq(<<0, 1>>, last.performance.average_efficiency)
        /\ FracLeq(last.performance.average_efficiency, <<100, 1>>)

\* C11: when the producer energies and the consumer energies both sum to 0 or
\* more, the load balance Simulate reports is at most 100 percent
LoadBalanceCapped ==
    (/\ last.op = "simulate"
     /\ SumEnergy(nodes, Producers) >= 0
     /\ SumEnergy(nodes, Consumers) >= 0) =>
        FracLeq(last.performance.load_balance, <<100, 1>>)

\* Simulate has run with more produced than demanded, and reported 100 percent
LoadBalanceCapHit ==
    /\ last.op = "simulate"
    /\ SumEnergy(nodes, Consumers) > 0
    /\ SumEnergy(nodes, Producers) > SumEnergy(nodes, Consumers)
    /\ FracEq(last.performance.load_balance, <<100, 1>>)

EnergyAt(item) == nodes[Find(nodes, item)].energy

\* both ends of the pair are items of nodes
Resolves(conn) == conn[1] \in NodeItems /\ conn[2] \in NodeItems

\* 1 - |a - b| / max(|a|, |b|, 1), for a and b in thousandths
EdgeFormula(a, b) ==
    LET m == IF Abs(a) >= Abs(b) /\ Abs(a) >= Unit THEN Abs(a)
             ELSE IF Abs(b) >= Unit THEN Abs(b) ELSE Unit
    IN  Frac(m - Abs(a - b), m)

RECURSIVE ResolvedSum(_)
\* the sum of EdgeFormula over those of the first k connections that resolve
ResolvedSum(k) ==
    IF k = 0 THEN <<0, 1>>
    ELSE IF Resolves(connections[k])
         THEN FracAdd(ResolvedSum(k - 1),
                      EdgeFormula(EnergyAt(connections[k][1]), EnergyAt(connections[k][2])))
         ELSE ResolvedSum(k - 1)

\* the nodes are a Generator of energy 100 and a City of energy 40
GeneratorAndCity ==
    /\ Len(nodes) = 2
    /\ {<<nodes[k].node_type, nodes[k].energy>> : k \in 1..2} = {<<"Generator", 100 * Unit>>, <<"City", 40 * Unit>>}

AssessmentSampling ==
    LET Catalog == {"Implement advanced encryption", "Upgrade firewall systems",
                    "Conduct regular security audits"}
        Sound(chosen) == /\ Len(chosen) = 2
                         /\ chosen[1] \in Catalog /\ chosen[2] \in Catalog
                         /\ chosen[1] # chosen[2]
    IN  /\ last.op = "assess" => Sound(last.security.suggestions)
        /\ \A k \in 1..Len(log_file) :
              log_file[k][1] = "Security Assessment:" => Sound(log_file[k][2].suggestions)

\* an assessment has been shown whose suggestions are the third and the first
\* of the catalog, in that order
AssessmentShown ==
    /\ last.op = "assess"
    /\ last.security.suggestions = <<"Conduct regular security audits",
                                     "Implement advanced encryption">>

\* the entries of one report on the nodes ns and connections conns
IsReport(f, ns, conns) ==
    /\ Len(f) = 3
    /\ f[1] = <<"Grid Topology:", dump(ns, conns)>>
    /\ f[2] = <<"Performance:", simulate_performance(ns, conns)>>
    /\ f[3][1] = "Security Assessment:"
    /\ f[3][2] \in perform_security_assessment

\* C18: the log changes only in an export, and after every export of a
\* topology with nodes it holds one report, of the topology exported: the
\* dump, the performance, the assessment
ExportOverwrites ==
    [][/\ log_file' # log_file => Export
       /\ (Export /\ nodes # <<>>) => IsReport(log_file', nodes, connections)]_vars

GridAligned ==
    \A item \in DOMAIN node_coords :
        /\ node_coords[item][1] % GRID_SIZE = 0
        /\ node_coords[item][2] % GRID_SIZE = 0

\* a node has been released with the pointer off the grid lines, and its
\* position recorded
ReleasedOffGrid ==
    /\ last.op = "move"
    /\ last.item \in DOMAIN node_coords
    /\ drag_data.x % GRID_SIZE # 0
    /\ drag_data.y % GRID_SIZE # 0

\* C17: an added node has energy 0; a step of the editor that keeps the number
\* of nodes changes the energy of a node only by setting the energy of that
\* node, to the value given, of either sign; a step that removes nodes leaves
\* the others as they were
EnergyFrame ==
    [][/\ Len(nodes') > Len(nodes) =>
             /\ Len(nodes') = Len(nodes) + 1
             /\ nodes'[Len(nodes')].energy = 0
             /\ \A k \in 1..Len(nodes) : nodes'[k].energy = nodes[k].energy
       /\ Len(nodes') = Len(nodes) =>
             \A k \in 1..Len(nodes) :
                 nodes'[k].energy # nodes[k].energy =>
                     \E item \in Closest, energy \in Energies :
                         /\ set_node_energy(item, energy)
                         /\ Find(nodes, item) = k
                         /\ nodes'[k].energy = energy
                         /\ \A m \in 1..Len(nodes) : m # k => nodes'[m] = nodes[m]
       /\ Len(nodes') < Len(nodes) =>
             \E item \in NodeItems :
                 LET Other(n) == n.item # item
                 IN  nodes' = SelectSeq(nodes, Other)]_vars

\* a node whose energy was set below 0 and that was moved is the one left
\* after the other node was deleted
EnergyKept ==
    /\ last.op = "remove_node"
    /\ Len(nodes) = 1
    /\ nodes[1].energy < 0
    /\ nodes[1].item \notin DOMAIN node_coords

\* C21, as stated: connection_start is None after every step that switches
\* connection mode on or off
StartClearedOnEverySwitch ==
    [][connection_mode' # connection_mode => connection_start' = None]_vars

\* C21, amended: connection_start is None after the Connect Nodes button,
\* whenever connection mode has just come on, and after every second click;
\* outside connection mode a first click left behind stays or is dropped and
\* nothing is connected; a connection is only added by a second click in
\* connection mode, from connection_start to the clicked item; and between the
\* first click and the second no other click adds, moves or deletes anything
TwoClickProtocol ==
    [][/\ (connection_mode' /\ ~connection_mode) => connection_start' = None
       /\ (connection_start' # None /\ connection_start' # connection_start) =>
             (connection_mode /\ connection_start = None /\ connection_mode')
       /\ Len(connections') > Len(connections) =>
             /\ connection_mode /\ connection_start # None
             /\ connection_start' = None
             /\ \E item \in Closest :
                   /\ handle_connection_click(item)
                   /\ connections' = Append(connections, <<connection_start, item>>)
       /\ (connection_mode /\ connection_start # None) =>
             \/ connection_start' = None
             \/ ~connection_mode' /\ UNCHANGED <<canvas, nodes, connections, connection_start>>
             \/ UNCHANGED <<next_id, node_coords, drag_data, connections, connection_start>>
                /\ Len(nodes') = Len(nodes)
       /\ toggle_connection_mode => connection_start' = None
       /\ \A item \in Closest :
             (connection_start # None /\ handle_connection_click(item)) =>
                 connection_start' = None]_vars

\* after a connection was made, a first click was left behind by leaving
\* connection mode through another mode button
FirstClickLeftBehind ==
    /\ ~connection_mode
    /\ connection_start # None
    /\ connections # <<>>

\* C22: with an empty node list Simulate, Security Check and Export Log only
\* warn: no metrics and no assessment are produced, the report file keeps its
\* content, and the canvas, the node and connection lists and the modes stay
EmptyTopologyGuard ==
    [][(nodes = <<>> /\ (Simulate \/ Assess \/ Export)) =>
          /\ last' = [op |-> "warning"]
          /\ UNCHANGED <<canvas, next_id, nodes, connections, node_coords, drag_data,
                         connection_mode, delete_mode, delete_connection_mode,
                         connection_start, images, log_file>>]_vars

\* an analysis warned on the empty node list while an earlier report is on file
WarnedWithReportOnFile ==
    /\ nodes = <<>>
    /\ last = [op |-> "warning"]
    /\ log_file # <<>>

\* C23: the legacy score of every topology lies in [5, 10], equals
\* min(10, 5 + 0.1*nodes + 0.2*connections + 0.5*(Generator and Substation
\* nodes)), and is not lowered by one more node or one more connection
LegacyScoreBounds ==
    vulnerability_score # None =>
        LET g == grid_topology
            critical == {i \in 1..Len(g.nodes) : g.nodes[i][1] = "Generator"} \cup
                        {i \in 1..Len(g.nodes) : g.nodes[i][1] = "Substation"}
            formula == 50 + Len(g.nodes) + 2 * Len(g.connections) + 5 * Cardinality(critical)
        IN  /\ vulnerability_score >= 50
            /\ vulnerability_score <= 100
            /\ vulnerability_score = IF formula < 100 THEN formula ELSE 100
            /\ \A node \in LegacyNodes :
                  calculate_vulnerability_score([g EXCEPT !.nodes = Append(@, node)])
                      >= vulnerability_score
            /\ \A c \in LegacyPairs :
                  calculate_vulnerability_score([g EXCEPT !.connections = Append(@, c)])
                      >= vulnerability_score

\* a topology whose unclamped sum exceeds 10 was scored
LegacyScoreClamped ==
    /\ vulnerability_score = 100
    /\ Len(grid_topology.nodes) = MaxLegacyNodes
    /\ Len(grid_topology.connections) = MaxLegacyConns
    /\ \A i \in 1..Len(grid_topology.nodes) : grid_topology.nodes[i][1] # "City"

====
